---- MODULE Spec2Model ----
(***************************************************************************)
(* Model of estereo.py: the WAVE reader/writer (read_wave, write_wave) and *)
(* the four file transforms built on them (estereo2mono, mono2estereo,     *)
(* codEstereo, decEstereo).  A file is a sequence of bytes; the struct     *)
(* formats are modelled byte by byte, little-endian, with the range checks *)
(* struct.pack and int.to_bytes make.                                      *)
(***************************************************************************)
EXTENDS Integers, Sequences, FiniteSets, TLC

VARIABLES fs, last, made, steps

vars == <<fs, last, made, steps>>

(* ---------------------------------------------------------------- bounds *)
\* longest sample sequence of a generated input file
MaxLen == 2
\* number of transform calls in one run
MaxSteps == 2

(* ----------------------------------------------------- bytes and structs *)
Pow256(k) == IF k = 0 THEN 1 ELSE IF k = 1 THEN 256 ELSE IF k = 2 THEN 65536 ELSE 16777216

Min(a, b) == IF a < b THEN a ELSE b

\* struct.pack of one integer on n bytes, little-endian; two's complement
\* for a negative value (floor division and modulo give its bit pattern)
PackInt(v, n) == [i \in 1..n |-> (v \div Pow256(i - 1)) % 256]

\* struct.unpack of an unsigned field ("I", "H")
UnpackU(b) ==
  IF Len(b) = 2 THEN b[1] + 256 * b[2]
  ELSE b[1] + 256 * b[2] + 65536 * b[3] + 16777216 * b[4]

\* int.from_bytes(b, "little", signed=True) and struct formats "b", "h", "i":
\* the top byte carries the sign
UnpackSBigEndian(b) ==
  LET n == Len(b)
      top == IF b[1] >= 128 THEN b[1] - 256 ELSE b[1]
      low == IF n = 1 THEN 0
             ELSE IF n = 2 THEN b[2]
             ELSE b[4] + 256 * b[3] + 65536 * b[2]
  IN low + Pow256(n - 1) * top

UnpackS(b) ==
  LET n == Len(b)
      top == IF b[n] >= 128 THEN b[n] - 256 ELSE b[n]
      low == IF n = 1 THEN 0
             ELSE IF n = 2 THEN b[1]
             ELSE b[1] + 256 * b[2] + 65536 * b[3]
  IN low + Pow256(n - 1) * top

\* struct "4s": the bytes cut or null-padded to four
Pack4s(s) == [i \in 1..4 |-> IF i <= Len(s) THEN s[i] ELSE 0]

\* range checks of struct.pack; the upper bound of "I" (2^32 - 1) is above
\* every integer of the model
InU32(v) == v >= 0
InU16(v) == v >= 0 /\ v <= 65535

SMax(bits) == IF bits = 8 THEN 127 ELSE IF bits = 16 THEN 32767 ELSE 2147483647
SMin(bits) == -SMax(bits) - 1
InS(v, bits) == v >= SMin(bits) /\ v <= SMax(bits)

RECURSIVE Flatten(_)
Flatten(ss) == IF ss = <<>> THEN <<>> ELSE Head(ss) \o Flatten(Tail(ss))

(* ----------------------------------------------------------- WAVE records *)
RIFF == <<82, 73, 70, 70>>
WAVE == <<87, 65, 86, 69>>
FMT == <<102, 109, 116, 32>>
DATA == <<100, 97, 116, 97>>
NONE == <<0, 0, 0, 0>>

BitDepths == {8, 16, 32}

NoHeader ==
  [ChunkID |-> NONE, ChunkSize |-> 0, Format |-> NONE, SubChunk1ID |-> NONE,
   SubChunk1Size |-> 0, AudioFormat |-> 0, NumChannels |-> 0, SampleRate |-> 0,
   ByteRate |-> 0, BlockAlign |-> 0, BitsPerSample |-> 0]

NoData == [SubChunk2ID |-> NONE, SubChunk2Size |-> 0, data |-> <<>>]

\* a path that names no file
Absent == [exists |-> FALSE, bytes |-> <<>>]

File(b) == [exists |-> TRUE, bytes |-> b]

(* -------------------------------------------------------------- read_wave *)
\* the sample format chosen from BitsPerSample: its size in bytes
SampleSize(bits) == bits \div 8

\* st.iter_unpack(format, buffer): one signed sample per SampleSize bytes
ReadSamples(buf, bits) ==
  LET w == SampleSize(bits)
  IN [i \in 1..(Len(buf) \div w) |-> UnpackS(SubSeq(buf, (i - 1) * w + 1, i * w))]

ReadFail(e) == [ok |-> FALSE, err |-> e, header |-> NoHeader, data |-> NoData]

ReadWave(f) ==
  IF ~f.exists THEN ReadFail("open")
  ELSE LET b == f.bytes IN
    IF Len(b) < 12 THEN ReadFail("struct")
    ELSE IF SubSeq(b, 9, 12) # WAVE THEN ReadFail("format")
    ELSE IF Len(b) < 36 THEN ReadFail("struct")
    ELSE IF Len(b) < 44 THEN ReadFail("struct")
    ELSE LET bits == UnpackU(SubSeq(b, 35, 36)) IN
      IF bits \notin BitDepths THEN ReadFail("bits")
      ELSE IF ((Len(b) - 44) % SampleSize(bits)) # 0 THEN ReadFail("struct")
      ELSE [ok |-> TRUE, err |-> "",
            header |->
              [ChunkID |-> SubSeq(b, 1, 4),
               ChunkSize |-> UnpackU(SubSeq(b, 5, 8)),
               Format |-> SubSeq(b, 9, 12),
               SubChunk1ID |-> SubSeq(b, 13, 16),
               SubChunk1Size |-> UnpackU(SubSeq(b, 17, 20)),
               AudioFormat |-> UnpackU(SubSeq(b, 21, 22)),
               NumChannels |-> UnpackU(SubSeq(b, 23, 24)),
               SampleRate |-> UnpackU(SubSeq(b, 25, 28)),
               ByteRate |-> UnpackU(SubSeq(b, 29, 32)),
               BlockAlign |-> UnpackU(SubSeq(b, 33, 34)),
               BitsPerSample |-> bits],
            data |->
              [SubChunk2ID |-> SubSeq(b, 37, 40),
               SubChunk2Size |-> UnpackU(SubSeq(b, 41, 44)),
               data |-> ReadSamples(SubSeq(b, 45, Len(b)), bits)]]

(* ------------------------------------------------------------- write_wave *)
RiffBytes(h) == Pack4s(h.ChunkID) \o PackInt(h.ChunkSize, 4) \o Pack4s(h.Format)

FmtBytes(h) ==
  Pack4s(h.SubChunk1ID) \o PackInt(h.SubChunk1Size, 4) \o PackInt(h.AudioFormat, 2)
  \o PackInt(h.NumChannels, 2) \o PackInt(h.SampleRate, 4) \o PackInt(h.ByteRate, 4)
  \o PackInt(h.BlockAlign, 2) \o PackInt(h.BitsPerSample, 2)

DataHeadBytes(d) == Pack4s(d.SubChunk2ID) \o PackInt(d.SubChunk2Size, 4)

SampleBytes(samples, bits) ==
  Flatten([i \in 1..Len(samples) |-> PackInt(samples[i], SampleSize(bits))])

\* write_wave(filename, header, data) on a path that holds `old`: whether it
\* returned, and what the path holds afterwards.  The file is opened "wb"
\* (truncated) after the Format check; a pack that raises leaves what was
\* written before it.
WriteWave(old, h, d) ==
  IF h.Format # WAVE THEN [ok |-> FALSE, file |-> old]
  ELSE IF ~InU32(h.ChunkSize) THEN [ok |-> FALSE, file |-> File(<<>>)]
  ELSE IF ~(/\ InU32(h.SubChunk1Size) /\ InU16(h.AudioFormat) /\ InU16(h.NumChannels)
            /\ InU32(h.SampleRate) /\ InU32(h.ByteRate) /\ InU16(h.BlockAlign)
            /\ InU16(h.BitsPerSample))
    THEN [ok |-> FALSE, file |-> File(RiffBytes(h))]
  ELSE IF ~InU32(d.SubChunk2Size)
    THEN [ok |-> FALSE, file |-> File(RiffBytes(h) \o FmtBytes(h))]
  ELSE LET head == RiffBytes(h) \o FmtBytes(h) \o DataHeadBytes(d) IN
    IF h.BitsPerSample \notin BitDepths THEN [ok |-> FALSE, file |-> File(head)]
    ELSE IF \E i \in 1..Len(d.data) : ~InS(d.data[i], h.BitsPerSample)
      THEN [ok |-> FALSE, file |-> File(head)]
    ELSE [ok |-> TRUE, file |-> File(head \o SampleBytes(d.data, h.BitsPerSample))]

(* ------------------------------------------------------- channel helpers *)
\* data[::2] and data[1::2]
Evens(s) == [i \in 1..((Len(s) + 1) \div 2) |-> s[2 * i - 1]]
Odds(s) == [i \in 1..(Len(s) \div 2) |-> s[2 * i]]

\* number of pairs zip(left, right) yields
ZipLen(l, r) == Min(Len(l), Len(r))

\* (left_sample + right_sample) // 2 and (left_sample - right_sample) // 2 on
\* Python's unbounded integers.  With l = 2a + p and r = 2b + q (p, q in 0..1)
\* the quotients are a + b + (p + q) // 2 and a - b + (p - q) // 2; written so,
\* no intermediate value leaves the 32-bit integers of the model checker.
HalfSumTrunc(l, r) ==
  LET q == (l \div 2) + (r \div 2) + (((l % 2) + (r % 2)) \div 2)
  IN IF q < 0 /\ (l % 2) # (r % 2) THEN q + 1 ELSE q

HalfDiffCeil(l, r) ==
  (l \div 2) - (r \div 2) + (IF (l % 2) > (r % 2) THEN 1 ELSE 0)

HalfSum(l, r) == (l \div 2) + (r \div 2) + (((l % 2) + (r % 2)) \div 2)

HalfDiff(l, r) ==
  (l \div 2) - (r \div 2) + (IF (l % 2) < (r % 2) THEN -1 ELSE 0)

\* header["ByteRate"] and header["BlockAlign"] as every transform recomputes them
Rates(h) ==
  [h EXCEPT !.ByteRate = (h.SampleRate * h.NumChannels * h.BitsPerSample) \div 8,
            !.BlockAlign = (h.NumChannels * h.BitsPerSample) \div 8]

\* the fresh data dictionary of a transform, SubChunk2Size filled in
DataRecord(samples, size) ==
  [SubChunk2ID |-> DATA, SubChunk2Size |-> size, data |-> samples]

\* data[start::2] = vals on a Python list (start 0 or 1): an extended slice
\* takes exactly as many values as it has positions, or raises ValueError
SliceCount(n, start) == IF start = 0 THEN (n + 1) \div 2 ELSE n \div 2

SliceAssign(data, start, vals) ==
  IF SliceCount(Len(data), start) # Len(vals)
    THEN [ok |-> FALSE, data |-> data]
    ELSE [ok |-> TRUE,
          data |-> [i \in 1..Len(data) |->
                      IF ((i - 1) % 2) = start THEN vals[((i - 1) \div 2) + 1]
                      ELSE data[i]]]

InterleaveZip(left, right) ==
  [ok |-> TRUE,
   data |-> [i \in 1..(2 * Min(Len(left), Len(right))) |->
               IF i % 2 = 1 THEN left[(i + 1) \div 2] ELSE right[i \div 2]]]

\* data = left + right; data[::2] = left; data[1::2] = right
Interleave(left, right) ==
  LET a == SliceAssign(left \o right, 0, left) IN
    IF ~a.ok THEN a ELSE SliceAssign(a.data, 1, right)

(* -------------------------------------------------- outcome of a transform *)
Outcome(status, err, called, file, r1, r2, wh, wd) ==
  [status |-> status, err |-> err, called |-> called, file |-> file,
   rh |-> r1.header, rd |-> r1.data, rh2 |-> r2.header, rd2 |-> r2.data,
   wh |-> wh, wd |-> wd]

NoRead == ReadFail("none")

\* a raise before write_wave is called: the output path keeps what it held
Raise(err, old, r1, r2) == Outcome("raise", err, FALSE, old, r1, r2, NoHeader, NoData)

\* the call of write_wave that ends every transform
Written(old, r1, r2, wh, wd) ==
  LET w == WriteWave(old, wh, wd) IN
    Outcome(IF w.ok THEN "ok" ELSE "raise", IF w.ok THEN "" ELSE "write",
            TRUE, w.file, r1, r2, wh, wd)

(* ------------------------------------------------------------ estereo2mono *)
ValidCanalLax(canal) == canal \in 0..4

ValidCanal(canal) == canal \in 0..3

MonoSamples(left, right, canal) ==
  IF canal = 0 THEN left
  ELSE IF canal = 1 THEN right
  ELSE IF canal = 2 THEN [i \in 1..ZipLen(left, right) |-> HalfSum(left[i], right[i])]
  ELSE IF canal = 3 THEN [i \in 1..ZipLen(left, right) |-> HalfDiff(left[i], right[i])]
  ELSE <<>>

Estereo2MonoOn(fin, old, canal) ==
  LET r == ReadWave(fin) IN
    IF ~r.ok THEN Raise("read", old, r, NoRead)
    ELSE IF r.header.NumChannels # 2 THEN Raise("channels", old, r, NoRead)
    ELSE IF ~ValidCanal(canal) THEN Raise("canal", old, r, NoRead)
    ELSE LET h == Rates([r.header EXCEPT !.NumChannels = 1])
             mono == MonoSamples(Evens(r.data.data), Odds(r.data.data), canal)
             size == (Len(mono) * h.NumChannels * h.BitsPerSample) \div 8
         IN Written(old, r, NoRead, h, DataRecord(mono, size))

(* ------------------------------------------------------------ mono2estereo *)
Mono2EstereoOn(fizq, fder, old) ==
  LET rl == ReadWave(fizq) IN
    IF ~rl.ok THEN Raise("read", old, rl, NoRead)
    ELSE IF rl.header.NumChannels # 1 THEN Raise("channels", old, rl, NoRead)
    ELSE LET rr == ReadWave(fder) IN
      IF ~rr.ok THEN Raise("read", old, rl, rr)
      ELSE IF rr.header.NumChannels # 1 THEN Raise("channels", old, rl, rr)
      ELSE LET h == Rates([rl.header EXCEPT !.NumChannels = 2])
               mix == Interleave(rl.data.data, rr.data.data)
               size == (Len(rl.data.data) * h.NumChannels * h.BitsPerSample) \div 8
           IN IF ~mix.ok THEN Raise("slice", old, rl, rr)
              ELSE Written(old, rl, rr, h, DataRecord(mix.data, size))

(* -------------------------------------------------------------- codEstereo *)
\* int.to_bytes(v, length=2, byteorder="little", signed=True) raises
\* OverflowError outside the 16-bit signed range
FitsTwoBytes(v) == InS(v, 16)

\* int.from_bytes(sum_sample + diff_sample, byteorder="little", signed=True)
CodSampleSwapped(s, d) == UnpackS(PackInt(d, 2) \o PackInt(s, 2))

CodSample(s, d) == UnpackS(PackInt(s, 2) \o PackInt(d, 2))

CodEstereoOn(fin, old) ==
  LET r == ReadWave(fin) IN
    IF ~r.ok THEN Raise("read", old, r, NoRead)
    ELSE IF r.header.NumChannels # 2 THEN Raise("channels", old, r, NoRead)
    ELSE LET h == Rates([r.header EXCEPT !.NumChannels = 1, !.BitsPerSample = 32])
             left == Evens(r.data.data)
             right == Odds(r.data.data)
             n == ZipLen(left, right)
             sums == [i \in 1..n |-> HalfSum(left[i], right[i])]
             diffs == [i \in 1..n |-> HalfDiff(left[i], right[i])]
         IN IF \E i \in 1..n : ~FitsTwoBytes(sums[i]) \/ ~FitsTwoBytes(diffs[i])
              THEN Raise("overflow", old, r, NoRead)
              ELSE LET cod == [i \in 1..n |-> CodSample(sums[i], diffs[i])]
                       size == (Len(cod) * h.NumChannels * h.BitsPerSample) \div 8
                   IN Written(old, r, NoRead, h, DataRecord(cod, size))

(* -------------------------------------------------------------- decEstereo *)
\* int.from_bytes(int.to_bytes(x, 2, "little"), "little", signed=True)
Signed16(x) == UnpackS(PackInt(x, 2))

\* semi_sum: (sample >> 16) & 0xFFFF; semi_diff: sample & 0xFFFF
SemiSumOf(sample) == Signed16((sample \div 65536) % 65536)

SemiDiffOf(sample) == Signed16(sample % 65536)

DecEstereoOn(fin, old) ==
  LET r == ReadWave(fin) IN
    IF ~r.ok THEN Raise("read", old, r, NoRead)
    ELSE IF r.header.NumChannels # 1 THEN Raise("channels", old, r, NoRead)
    ELSE IF r.header.BitsPerSample # 32 THEN Raise("bits", old, r, NoRead)
    ELSE LET h == Rates([r.header EXCEPT !.NumChannels = 2, !.BitsPerSample = 16])
             cod == r.data.data
             semi_sum == [i \in 1..Len(cod) |-> SemiSumOf(cod[i])]
             semi_diff == [i \in 1..Len(cod) |-> SemiDiffOf(cod[i])]
             left == [i \in 1..Len(cod) |-> semi_sum[i] + semi_diff[i]]
             right == [i \in 1..Len(cod) |-> semi_sum[i] - semi_diff[i]]
             mix == Interleave(left, right)
             size == (Len(mix.data) * h.NumChannels * h.BitsPerSample) \div 8
         IN IF ~mix.ok THEN Raise("slice", old, r, NoRead)
            ELSE Written(old, r, NoRead, h, DataRecord(mix.data, size))

(* ------------------------------------------------------------ input files *)
SampleRates == {8000}

\* the header and data of a well-formed PCM file holding `samples`
WaveHeader(nch, bits, samples) ==
  Rates([ChunkID |-> RIFF, ChunkSize |-> 36 + Len(samples) * (bits \div 8),
         Format |-> WAVE, SubChunk1ID |-> FMT, SubChunk1Size |-> 16,
         AudioFormat |-> 1, NumChannels |-> nch,
         SampleRate |-> CHOOSE r \in SampleRates : TRUE,
         ByteRate |-> 0, BlockAlign |-> 0, BitsPerSample |-> bits])

WaveData(bits, samples) == DataRecord(samples, Len(samples) * (bits \div 8))

\* the bytes of a file with the given header, data-chunk header and samples
RawFile(h, d, width) ==
  File(RiffBytes(h) \o FmtBytes(h) \o DataHeadBytes(d) \o SampleBytes(d.data, width))

WaveFile(nch, bits, samples) ==
  RawFile(WaveHeader(nch, bits, samples), WaveData(bits, samples), bits)

\* sample values of the generated files: the extremes of each width and an odd
\* value; for 32 bits two packed pairs (7 | 3 << 16, 32767 | 32767 << 16) and
\* the most negative value
Samples(bits) ==
  IF bits = 8 THEN {-128, 3, 127}
  ELSE IF bits = 16 THEN {-32768, 1, 32767}
  ELSE {196615, 2147450879, SMin(32)}

SeqsUpTo(S, n) == UNION {[1..k -> S] : k \in 0..n}

GeneratedFiles ==
  UNION {{WaveFile(nch, bits, s) : s \in SeqsUpTo(Samples(bits), MaxLen)} :
              nch \in {1, 2}, bits \in BitDepths}

\* files of the documented examples, and files read_wave refuses
ExampleFiles ==
  {WaveFile(2, 16, <<100, 50, -200, 50>>),
   WaveFile(2, 16, <<10, 4>>),
   RawFile([WaveHeader(1, 16, <<7>>) EXCEPT !.Format = RIFF], WaveData(16, <<7>>), 16),
   RawFile([WaveHeader(2, 16, <<7, 7>>) EXCEPT !.BitsPerSample = 24],
           WaveData(16, <<7, 7>>), 16),
   File(RiffBytes(WaveHeader(1, 16, <<>>)))}

InputFiles == GeneratedFiles \cup ExampleFiles

\* what the second path holds at the start: nothing, or a short mono file
SecondFiles == {Absent, WaveFile(1, 16, <<>>), WaveFile(1, 16, <<7>>)}

Files == {"a", "b"}
OutFiles == {"b"}
Canals == 0..4

(* ------------------------------------------------------------------- state *)
\* fs: what each path holds.  last: the last transform called, its arguments,
\* what it read, what it passed to write_wave, how it ended, and the file
\* system it started from and where its first input came from.  made: for
\* each path, the transform whose write_wave call last opened it, with what
\* that transform had read.  steps: transforms called so far.
Given == [by |-> "input", ok |-> TRUE, rh |-> NoHeader, rd |-> NoData]

Made(op, o) == [by |-> op, ok |-> o.status = "ok", rh |-> o.rh, rd |-> o.rd]

Call(op, in1, in2, out, canal, o) ==
  [op |-> op, in1 |-> in1, in2 |-> in2, out |-> out, canal |-> canal,
   status |-> o.status, err |-> o.err, called |-> o.called,
   rh |-> o.rh, rd |-> o.rd, rh2 |-> o.rh2, rd2 |-> o.rd2,
   wh |-> o.wh, wd |-> o.wd, pre |-> fs, from |-> made[in1]]

Init ==
  /\ fs \in {[f \in Files |-> IF f = "a" THEN x ELSE y] :
               x \in InputFiles, y \in SecondFiles}
  /\ last = [op |-> "none", in1 |-> "a", in2 |-> "a", out |-> "b", canal |-> 0,
             status |-> "none", err |-> "", called |-> FALSE,
             rh |-> NoHeader, rd |-> NoData, rh2 |-> NoHeader, rd2 |-> NoData,
             wh |-> NoHeader, wd |-> NoData, pre |-> fs, from |-> Given]
  /\ made = [f \in Files |-> Given]
  /\ steps = 0

estereo2mono ==
  \E ficEste \in Files, ficMono \in OutFiles, canal \in Canals :
    LET o == Estereo2MonoOn(fs[ficEste], fs[ficMono], canal) IN
      /\ steps < MaxSteps
      /\ fs' = [fs EXCEPT ![ficMono] = o.file]
      /\ made' = IF o.called THEN [made EXCEPT ![ficMono] = Made("estereo2mono", o)] ELSE made
      /\ last' = Call("estereo2mono", ficEste, ficEste, ficMono, canal, o)
      /\ steps' = steps + 1

mono2estereo ==
  \E ficIzq \in Files, ficDer \in Files, ficEste \in OutFiles :
    LET o == Mono2EstereoOn(fs[ficIzq], fs[ficDer], fs[ficEste]) IN
      /\ steps < MaxSteps
      /\ fs' = [fs EXCEPT ![ficEste] = o.file]
      /\ made' = IF o.called THEN [made EXCEPT ![ficEste] = Made("mono2estereo", o)] ELSE made
      /\ last' = Call("mono2estereo", ficIzq, ficDer, ficEste, 0, o)
      /\ steps' = steps + 1

codEstereo ==
  \E ficEste \in Files, ficCod \in OutFiles :
    LET o == CodEstereoOn(fs[ficEste], fs[ficCod]) IN
      /\ steps < MaxSteps
      /\ fs' = [fs EXCEPT ![ficCod] = o.file]
      /\ made' = IF o.called THEN [made EXCEPT ![ficCod] = Made("codEstereo", o)] ELSE made
      /\ last' = Call("codEstereo", ficEste, ficEste, ficCod, 0, o)
      /\ steps' = steps + 1

decEstereo ==
  \E ficCod \in Files, ficEste \in OutFiles :
    LET o == DecEstereoOn(fs[ficCod], fs[ficEste]) IN
      /\ steps < MaxSteps
      /\ fs' = [fs EXCEPT ![ficEste] = o.file]
      /\ made' = IF o.called THEN [made EXCEPT ![ficEste] = Made("decEstereo", o)] ELSE made
      /\ last' = Call("decEstereo", ficCod, ficCod, ficEste, 0, o)
      /\ steps' = steps + 1

Next == estereo2mono \/ mono2estereo \/ codEstereo \/ decEstereo

Spec == Init /\ [][Next]_vars

(* ------------------------------------------------- vocabulary of the claims *)
Transforms == {"estereo2mono", "mono2estereo", "codEstereo", "decEstereo"}

\* the first (second) input was parsed by read_wave
Read1 == last.rh.Format = WAVE
Read2 == last.rh2.Format = WAVE

\* the input of the last call was a stereo file of 16-bit samples
Stereo16In == Read1 /\ last.rh.NumChannels = 2 /\ last.rh.BitsPerSample = 16

\* left and right channel of a flat sample sequence, by index
LeftOf(s, i) == s[2 * i - 1]
RightOf(s, i) == s[2 * i]
Pairs(s) == Len(s) \div 2

\* m = floor((l + r) / 2) and m = floor((l - r) / 2), stated on the remainders
IsFloorHalfSum(m, l, r) == ((l - m) + (r - m)) \in {0, 1}
IsFloorHalfDiff(m, l, r) == ((l - m) - (r + m)) \in {0, 1}

\* the 16-bit field u (0..65535) read as a signed number
SignExtend16(u) == IF u >= 32768 THEN u - 65536 ELSE u
LowHalf(p) == p % 65536
HighHalf(p) == (p \div 65536) % 65536

\* fields of a file's header read at their offsets, for a file long enough
HasHeader(f) == f.exists /\ Len(f.bytes) >= 44
FieldAt(f, from, to) == UnpackU(SubSeq(f.bytes, from, to))
ChannelsOf(f) == FieldAt(f, 23, 24)
BitsOf(f) == FieldAt(f, 35, 36)
WrongChannels(f, n) == HasHeader(f) /\ ChannelsOf(f) # n
WrongBits(f, n) == HasHeader(f) /\ BitsOf(f) # n

\* a file whose ChunkSize and SubChunk2Size agree with its length
WellFormed(f) ==
  /\ ReadWave(f).ok
  /\ FieldAt(f, 5, 8) = Len(f.bytes) - 8
  /\ FieldAt(f, 41, 44) = Len(f.bytes) - 44

(* ------------------------------------------------------------------ claims *)
\* C1: codEstereo followed by decEstereo gives back the 16-bit stereo file:
\* decoding a file that codEstereo wrote from a stereo file of 16-bit samples
\* with as many left as right samples succeeds and writes a 16-bit stereo file
\* with exactly the samples codEstereo had read.
C1_JointStereoRoundTrip ==
  (/\ last.op = "decEstereo"
   /\ last.from.by = "codEstereo" /\ last.from.ok
   /\ last.from.rh.NumChannels = 2 /\ last.from.rh.BitsPerSample = 16
   /\ Len(last.from.rd.data) % 2 = 0)
  => (/\ last.status = "ok"
      /\ last.wh.NumChannels = 2 /\ last.wh.BitsPerSample = 16
      /\ last.wd.data = last.from.rd.data)

\* C2: read_wave of a file write_wave has written returns the header (all 11
\* fields) and the data record (SubChunk2ID, SubChunk2Size, samples in order)
\* that were written, for 8, 16 and 32 bits per sample.
C2_WaveRoundTrip ==
  last.status = "ok" =>
    LET r == ReadWave(fs[last.out]) IN
      /\ last.wh.Format = WAVE /\ last.wh.BitsPerSample \in BitDepths
      /\ r.ok /\ r.header = last.wh /\ r.data = last.wd

C2_Witness ==
  /\ last.status = "ok" /\ last.wh.BitsPerSample = 16
  /\ \E i \in 1..Len(last.wd.data) : last.wd.data[i] < 0
  /\ \E i \in 1..Len(last.wd.data) : last.wd.data[i] > 0

\* C3: decEstereo takes semiSum from the low and semiDiff from the high 16 bits
\* of each packed sample, sign-extended, and hands write_wave left = semiSum +
\* semiDiff and right = semiSum - semiDiff; 196615 decodes to left 10, right 4.
C3_DecodeLayout ==
  (last.op = "decEstereo" /\ last.called) =>
    /\ Len(last.wd.data) = 2 * Len(last.rd.data)
    /\ \A i \in 1..Len(last.rd.data) :
         LET semiSum == SignExtend16(LowHalf(last.rd.data[i]))
             semiDiff == SignExtend16(HighHalf(last.rd.data[i]))
         IN /\ LeftOf(last.wd.data, i) = semiSum + semiDiff
            /\ RightOf(last.wd.data, i) = semiSum - semiDiff
    /\ (last.rd.data = <<196615>> => last.wd.data = <<10, 4>>)

\* C4: codEstereo on a stereo file of 16-bit samples hands write_wave, for each
\* pair (l, r), one 32-bit sample whose low 16 bits are the pattern of
\* floor((l + r) / 2) and whose high 16 bits are the pattern of
\* floor((l - r) / 2); l = 10, r = 4 gives 196615.
C4_EncodeLayout ==
  (last.op = "codEstereo" /\ Stereo16In) =>
    /\ last.called /\ last.status = "ok"
    /\ last.wh.BitsPerSample = 32 /\ last.wh.NumChannels = 1
    /\ Len(last.wd.data) = Pairs(last.rd.data)
    /\ \A i \in 1..Pairs(last.rd.data) :
         LET l == LeftOf(last.rd.data, i)
             r == RightOf(last.rd.data, i)
             p == last.wd.data[i]
         IN /\ InS(p, 32)
            /\ LowHalf(p) = LowHalf((l + r) \div 2)
            /\ HighHalf(p) = LowHalf((l - r) \div 2)
    /\ (last.rd.data = <<10, 4>> => last.wd.data = <<196615>>)

C4_Witness ==
  /\ last.op = "codEstereo" /\ last.status = "ok"
  /\ last.rd.data = <<10, 4>> /\ last.rh.BitsPerSample = 16
  /\ ReadWave(fs[last.out]).data.data = <<196615>>

\* C5: estereo2mono writes the left channel for canal 0, the right channel for
\* canal 1, floor((left + right) / 2) per pair for canal 2 and
\* floor((left - right) / 2) per pair for canal 3, rounding toward negative
\* infinity; left = [100, -200], right = [50, 50] gives [75, -75] and [25, -125].
C5_StereoToMono ==
  (last.op = "estereo2mono" /\ Read1 /\ last.rh.NumChannels = 2
   /\ last.canal \in 0..3) =>
    LET in == last.rd.data
        mono == last.wd.data
    IN /\ last.called
       /\ last.canal = 0 =>
            /\ Len(mono) = Len(in) - Pairs(in)
            /\ \A i \in 1..Len(mono) : mono[i] = LeftOf(in, i)
       /\ last.canal = 1 =>
            /\ Len(mono) = Pairs(in)
            /\ \A i \in 1..Len(mono) : mono[i] = RightOf(in, i)
       /\ last.canal = 2 =>
            /\ Len(mono) = Pairs(in)
            /\ \A i \in 1..Len(mono) :
                 IsFloorHalfSum(mono[i], LeftOf(in, i), RightOf(in, i))
            /\ (in = <<100, 50, -200, 50>> => mono = <<75, -75>>)
       /\ last.canal = 3 =>
            /\ Len(mono) = Pairs(in)
            /\ \A i \in 1..Len(mono) :
                 IsFloorHalfDiff(mono[i], LeftOf(in, i), RightOf(in, i))
            /\ (in = <<100, 50, -200, 50>> => mono = <<25, -125>>)

C5_Witness ==
  /\ last.op = "estereo2mono" /\ last.status = "ok" /\ last.canal = 2
  /\ last.rd.data = <<100, 50, -200, 50>>
  /\ ReadWave(fs[last.out]).data.data = <<75, -75>>

\* C6: in the file a transform has written, SubChunk2Size equals the number of
\* bytes of the samples written: the sample count times BitsPerSample / 8.
C6_SubChunk2Size ==
  (last.op \in Transforms /\ last.status = "ok") =>
    /\ FieldAt(fs[last.out], 41, 44) = Len(fs[last.out].bytes) - 44
    /\ last.wd.SubChunk2Size = Len(last.wd.data) * (last.wh.BitsPerSample \div 8)

\* C7: in the file a transform has written from well-formed input, ChunkSize
\* equals the size of the written file minus 8.
C7_ChunkSize ==
  (/\ last.op \in Transforms /\ last.status = "ok"
   /\ WellFormed(last.pre[last.in1]) /\ WellFormed(last.pre[last.in2])) =>
    FieldAt(fs[last.out], 5, 8) = Len(fs[last.out].bytes) - 8

\* C8: a transform whose precondition fails (estereo2mono, codEstereo: input
\* not 2 channels; mono2estereo: an input not 1 channel; decEstereo: input not
\* 1 channel or not 32 bits; estereo2mono: canal outside 0..3) raises before
\* write_wave is called, and no path holds anything else than before.
PreconditionFails ==
  \/ /\ last.op = "estereo2mono"
     /\ WrongChannels(last.pre[last.in1], 2) \/ last.canal \notin 0..3
  \/ /\ last.op = "codEstereo"
     /\ WrongChannels(last.pre[last.in1], 2)
  \/ /\ last.op = "mono2estereo"
     /\ WrongChannels(last.pre[last.in1], 1) \/ WrongChannels(last.pre[last.in2], 1)
  \/ /\ last.op = "decEstereo"
     /\ WrongChannels(last.pre[last.in1], 1) \/ WrongBits(last.pre[last.in1], 32)

C8_GuardsAbortBeforeOutput ==
  PreconditionFails =>
    /\ last.status = "raise" /\ ~last.called
    /\ fs = last.pre

C8_Witness ==
  /\ last.op = "estereo2mono" /\ last.canal = 4
  /\ ReadWave(last.pre[last.in1]).ok /\ ChannelsOf(last.pre[last.in1]) = 2
  /\ ~last.pre[last.out].exists /\ ~fs[last.out].exists
  /\ last.status = "raise"

\* C9: on a stereo file of 16-bit samples the half sums and half differences
\* stay in -32768..32767: estereo2mono with canal 2 or 3 writes only samples of
\* that range, and codEstereo's two-byte conversions never overflow.
C9_HalfBounds ==
  /\ (last.op = "estereo2mono" /\ Stereo16In /\ last.canal \in {2, 3}) =>
       /\ last.status = "ok"
       /\ \A i \in 1..Len(last.wd.data) :
            last.wd.data[i] >= -32768 /\ last.wd.data[i] <= 32767
  /\ (last.op = "codEstereo" /\ Stereo16In) =>
       /\ last.err # "overflow" /\ last.status = "ok"

C9_Witness ==
  /\ last.op = "estereo2mono" /\ last.canal = 3 /\ last.status = "ok"
  /\ last.rd.data = <<32767, -32768>> /\ last.rh.BitsPerSample = 16
  /\ last.wd.data = <<32767>>

\* C10, as claimed: mono2estereo on two mono files with different sample
\* counts does not fail and writes the interleaving cut to the shorter channel.
BothMono ==
  /\ last.op = "mono2estereo"
  /\ Read1 /\ last.rh.NumChannels = 1
  /\ Read2 /\ last.rh2.NumChannels = 1

C10_TruncatesToShorter ==
  (BothMono /\ Len(last.rd.data) # Len(last.rd2.data)) =>
    LET n == Min(Len(last.rd.data), Len(last.rd2.data)) IN
      /\ last.called
      /\ Len(last.wd.data) = 2 * n
      /\ \A i \in 1..n : /\ LeftOf(last.wd.data, i) = last.rd.data[i]
                         /\ RightOf(last.wd.data, i) = last.rd2.data[i]

\* C10, amended: mono2estereo on two mono files with different sample counts
\* never cuts a channel.  When the left file has exactly one sample more than
\* the right, it hands write_wave all samples of both, left[i] at 2i and
\* right[i] at 2i+1; otherwise it raises before write_wave is called and no
\* path changes.
C10_UnequalLengths ==
  (BothMono /\ Len(last.rd.data) # Len(last.rd2.data)) =>
    IF Len(last.rd.data) = Len(last.rd2.data) + 1
      THEN /\ last.called
           /\ Len(last.wd.data) = Len(last.rd.data) + Len(last.rd2.data)
           /\ \A i \in 1..Len(last.rd.data) :
                LeftOf(last.wd.data, i) = last.rd.data[i]
           /\ \A i \in 1..Len(last.rd2.data) :
                RightOf(last.wd.data, i) = last.rd2.data[i]
      ELSE /\ last.status = "raise" /\ ~last.called
           /\ fs = last.pre

C10_Witness ==
  /\ BothMono /\ last.status = "ok"
  /\ Len(last.rd.data) = 2 /\ Len(last.rd2.data) = 1
  /\ Len(ReadWave(fs[last.out]).data.data) = 3

C10_WitnessRaise ==
  /\ BothMono /\ last.status = "raise"
  /\ Len(last.rd.data) = 0 /\ Len(last.rd2.data) = 1

====
